---------------------------- MODULE Spec2Model ----------------------------
(***************************************************************************)
(* Model of python-chroma-rest-server: the Razer feature-report encoder    *)
(* (chromarestserver/effect.py), the HID device selection and effect       *)
(* dispatch (chromarestserver/model.py) and the keyboard REST resource     *)
(* (chromarestserver/resource.py).                                         *)
(*                                                                         *)
(* Python lists are sequences: offset k of a list is index k+1 here.       *)
(***************************************************************************)
EXTENDS Integers, Sequences, FiniteSets, TLC

VARIABLES
    enc_in,       \* encoder specification: the raw constructor arguments
    enc_effect,   \* encoder specification: the constructed Effect, or NoEffect
    enc_report,   \* encoder specification: to_feature_report()'s result
    enc_twin,     \* encoder specification: the Effect built from the same
                  \* arguments with another transaction id
    enc_twin_report,  \* encoder specification: the twin's report
    usb_device,   \* USBModel._device: the cached handle, or None
    threads,      \* the request threads that serve requests
    serialized,   \* TRUE when the callers serialize their requests
    offered,      \* the items that the callers put in their requests
    host,         \* what the HID library can list and the device can answer
    pc,           \* per thread: position in on_post / device / Effect.run
    infos,        \* per thread: what hid.enumerate() just returned
    item,         \* per thread: the item being processed
    call,         \* per thread: the effect builder being called
    media,        \* per thread: resp.media['result'], or NoMedia
    exc,          \* per thread: the exception in flight or last raised
    effect,       \* per thread: the Effect whose run() is executing
    request,      \* per thread: run()'s local `request`
    sent,         \* per thread: the buffer given to send_feature_report
    written,      \* per thread: run()'s local `written`
    response,     \* per thread: run()'s local `response`
    run_io,       \* per thread: device calls issued by the current run()
    log,          \* per thread: HID library calls issued for the item
    errlog        \* per thread: logger.error was called for the item

encvars == <<enc_in, enc_effect, enc_report, enc_twin, enc_twin_report>>
sysvars == <<usb_device, threads, serialized, offered, host, pc, infos,
             item, call, media, exc, effect, request, sent, written,
             response, run_io, log, errlog>>
vars == <<enc_in, enc_effect, enc_report, enc_twin, enc_twin_report,
          usb_device, threads,
          serialized, offered, host, pc, infos, item, call, media, exc,
          effect,
          request, sent, written, response, run_io, log, errlog>>

---------------------------------------------------------------------------
(* Bounds of the model *)

\* longest argument list given to the Effect constructor directly
MaxArgLen == 84
\* most rows of a custom-frame grid
MaxRows == 8
\* widest custom-frame grid
MaxCols == 27

---------------------------------------------------------------------------
(* Python helpers *)

None == "None"

\* None where a device handle is expected; a handle is the hid.device()
\* object that was opened: the ids it was opened with and its identity
NoDevice == [vendor_id |-> 0, product_id |-> 0, id |-> 0]

\* list[lo:hi]
Slice(list, lo, hi) ==
    LET l == IF lo > Len(list) THEN Len(list) ELSE lo
        h == IF hi > Len(list) THEN Len(list) ELSE hi
    IN  IF h <= l THEN <<>> ELSE SubSeq(list, l + 1, h)

\* list[lo:hi] = vals
SliceAssign(list, lo, hi, vals) ==
    LET l == IF lo > Len(list) THEN Len(list) ELSE lo
        h0 == IF hi > Len(list) THEN Len(list) ELSE hi
        h == IF h0 < l THEN l ELSE h0
    IN  SubSeq(list, 1, l) \o vals \o SubSeq(list, h + 1, Len(list))

\* list[k] = v, with a negative k counted from the end
SetItem(list, k, v) ==
    LET i == IF k < 0 THEN Len(list) + k + 1 ELSE k + 1
    IN  [list EXCEPT ![i] = v]

RECURSIVE int_xor(_, _)
int_xor(a, b) ==
    IF a = 0 THEN b
    ELSE IF b = 0 THEN a
    ELSE (((a % 2) + (b % 2)) % 2) + (2 * int_xor(a \div 2, b \div 2))

\* functools.reduce(int.__xor__, list): the fold is evaluated by halves,
\* which gives the left fold's value because XOR is associative
RECURSIVE reduce_xor(_)
reduce_xor(list) ==
    IF Len(list) = 1 THEN list[1]
    ELSE LET mid == Len(list) \div 2
         IN  int_xor(reduce_xor(SubSeq(list, 1, mid)),
                     reduce_xor(SubSeq(list, mid + 1, Len(list))))

---------------------------------------------------------------------------
(* chromarestserver/util.py *)

clamp(n, smallest, largest) ==
    LET m == IF n < largest THEN n ELSE largest
    IN  IF smallest > m THEN smallest ELSE m

\* clamp255 that wraps around instead of saturating
clamp255_wrap(n) == n % 256

clamp255(n) == clamp(n, 0, 255)

---------------------------------------------------------------------------
(* chromarestserver/effect.py *)

REPORT_ID == 0
REPORT_LEN == 90
LED_SPECTRUM_CYCLING == 4
RAZER_CMD_BUSY == 1
RAZER_CMD_SUCCESSFUL == 2
RAZER_CMD_FAILURE == 3
RAZER_CMD_TIMEOUT == 4
RAZER_CMD_NOT_SUPPORTED == 5
DEFAULT_TX_ID == 63

NoEffect == [device |-> NoDevice, command |-> -1, subcommand |-> -1,
             tx_id |-> -1, args |-> <<>>]

\* Effect.__init__
Effect(device, command, subcommand, tx_id, args) ==
    [device |-> device,
     command |-> clamp255(command),
     subcommand |-> clamp255(subcommand),
     tx_id |-> clamp255(tx_id),
     args |-> [i \in 1..Len(args) |-> clamp255(args[i])]]

\* to_feature_report with the checksum taken before the arguments are placed
to_feature_report_crc_early(self) ==
    LET arg_count == Len(self.args)
        b0 == [i \in 1..REPORT_LEN |-> 0]
        b3 == SetItem(b0, 5, arg_count)
        b4 == SetItem(b3, 6, self.command)
        b5 == SetItem(b4, 7, self.subcommand)
        crc == reduce_xor(Slice(b5, 2, 88))
        b6 == SliceAssign(b5, 8, 8 + arg_count, self.args)
    IN  SetItem(b6, -2, crc)

\* to_feature_report with the arguments copied one offset too far
to_feature_report_shifted(self) ==
    LET arg_count == Len(self.args)
        b0 == [i \in 1..REPORT_LEN |-> 0]
        b3 == SetItem(b0, 5, arg_count)
        b4 == SetItem(b3, 6, self.command)
        b5 == SetItem(b4, 7, self.subcommand)
        b6 == SliceAssign(b5, 9, 9 + arg_count, self.args)
        crc == reduce_xor(Slice(b6, 2, 88))
    IN  SetItem(b6, -2, crc)

\* to_feature_report with the transaction id encoded at offset 1
to_feature_report_tx(self) ==
    LET arg_count == Len(self.args)
        b0 == [i \in 1..REPORT_LEN |-> 0]
        b1 == SetItem(b0, 1, self.tx_id)
        b3 == SetItem(b1, 5, arg_count)
        b4 == SetItem(b3, 6, self.command)
        b5 == SetItem(b4, 7, self.subcommand)
        b6 == SliceAssign(b5, 8, 8 + arg_count, self.args)
        crc == reduce_xor(Slice(b6, 2, 88))
    IN  SetItem(b6, -2, crc)

\* Effect.to_feature_report
to_feature_report(self) ==
    LET arg_count == Len(self.args)
        b0 == [i \in 1..REPORT_LEN |-> 0]
        b1 == SetItem(b0, 0, 0)
        b2 == SliceAssign(b1, 2, 5, <<0, 0, 0>>)
        b3 == SetItem(b2, 5, arg_count)
        b4 == SetItem(b3, 6, self.command)
        b5 == SetItem(b4, 7, self.subcommand)
        b6 == SliceAssign(b5, 8, 8 + arg_count, self.args)
        crc == reduce_xor(Slice(b6, 2, 88))
    IN  SetItem(b6, -2, crc)

\* matrix_effect_none
matrix_effect_none(dev) == Effect(dev, 3, 10, DEFAULT_TX_ID, <<0>>)

\* matrix_effect_custom_frame
matrix_effect_custom_frame(dev, variable_storage) ==
    Effect(dev, 3, 10, DEFAULT_TX_ID, <<5, variable_storage>>)

\* matrix_effect_wave
matrix_effect_wave(dev, direction) ==
    Effect(dev, 3, 10, DEFAULT_TX_ID, <<1, clamp(direction, 1, 2)>>)

\* matrix_effect_spectrum
matrix_effect_spectrum(dev) ==
    Effect(dev, 3, 10, DEFAULT_TX_ID, <<LED_SPECTRUM_CYCLING>>)

\* matrix_effect_static
matrix_effect_static(dev, r, g, b) ==
    Effect(dev, 3, 10, DEFAULT_TX_ID,
           <<6, clamp255(r), clamp255(g), clamp255(b)>>)

\* set_custom_frame (effect.py)
set_custom_frame(dev, row, col_start, col_end, rgbs) ==
    Effect(dev, 3, 11, DEFAULT_TX_ID,
           <<255, clamp(row, 0, 6), clamp(col_start, 0, 21),
             clamp(col_end, 0, 21)>> \o rgbs)

---------------------------------------------------------------------------
(* chromarestserver/model.py *)

RAZER_VENDOR_ID == 5426

\* the RAZER_* attributes of KeyboardModel (0x010D .. 0x0232)
KeyboardProducts ==
    {269, 271, 273, 275, 519, 282, 283, 270, 513, 514, 515, 516, 517, 520,
     521, 527, 528, 529, 532, 534, 535, 538, 542, 543, 544, 545, 548, 557,
     549, 559, 562}

\* KeyboardModel.is_product_supported
is_product_supported(product_id) == product_id \in KeyboardProducts

\* the channels taken in RGB order: red from the high byte
from_long_rgb_order(x) ==
    [r |-> (x \div 65536) % 256, g |-> (x \div 256) % 256, b |-> x % 256]

\* RGB.from_long_bgr
from_long_bgr(x) ==
    [r |-> x % 256, g |-> (x \div 256) % 256, b |-> (x \div 65536) % 256]

\* the channels listed blue first
to_rgb_reversed(color) == <<color.b, color.g, color.r>>

\* RGB.to_rgb
to_rgb(color) == <<color.r, color.g, color.b>>

\* the list comprehension of USBModel.set_custom_frame: a row, flattened
row_rgbs(row) ==
    [k \in 1..(3 * Len(row)) |-> to_rgb(row[((k - 1) \div 3) + 1])[((k - 1) % 3) + 1]]

\* the selection that keeps the last match of the enumeration
first_match_last(devs) ==
    LET hits == {i \in 1..Len(devs) :
                    /\ devs[i].vendor_id = RAZER_VENDOR_ID
                    /\ is_product_supported(devs[i].product_id)}
    IN  IF hits = {} THEN NoDevice
        ELSE LET i == CHOOSE k \in hits : \A j \in hits : k >= j
             IN  [vendor_id |-> devs[i].vendor_id,
                  product_id |-> devs[i].product_id,
                  id |-> 0]

\* the first device of an enumeration that USBModel.device selects, as the
\* handle opened for it; None when the loop ends without a match
first_match(devs) ==
    LET hits == {i \in 1..Len(devs) :
                    /\ devs[i].vendor_id = RAZER_VENDOR_ID
                    /\ is_product_supported(devs[i].product_id)}
    IN  IF hits = {} THEN NoDevice
        ELSE LET i == CHOOSE k \in hits : \A j \in hits : k <= j
             IN  [vendor_id |-> devs[i].vendor_id,
                  product_id |-> devs[i].product_id,
                  id |-> 0]

---------------------------------------------------------------------------
(* The HID library and the device behind it *)

\* most devices hid.enumerate() reports
MaxDevices == 2

DeviceInfos ==
    {[vendor_id |-> 5426, product_id |-> 515],   \* Razer BlackWidow Chroma
     [vendor_id |-> 5426, product_id |-> 67],    \* Razer, not a keyboard
     [vendor_id |-> 1133, product_id |-> 545],   \* keyboard id, other vendor
     [vendor_id |-> 5426, product_id |-> 545]}   \* Razer BlackWidow Chroma V2

\* what hid.enumerate() may return when the devices of D can be attached
Enumerations(D) ==
    UNION {[1..n -> D] : n \in 0..MaxDevices}

\* what send_feature_report(buf) may return: -1, the length of buf, or,
\* from a device that misbehaves, a short count
WriteReturns(buf, malformed) ==
    {-1, Len(buf)} \cup (IF malformed THEN {Len(buf) - 1} ELSE {})

\* the device's answer to a report: the 90 bytes it received after the
\* report id, followed by its status
EchoReport(buf, status) == Slice(buf, 1, 1 + REPORT_LEN) \o <<status>>

\* the device's answer is the written buffer itself, report id first
EchoSent(buf) == buf

\* the written buffer, report id first, with the status in its last byte
EchoSentStatus(buf, status) == SetItem(buf, -1, status)

\* the 90 bytes received after the report id and nothing else
EchoBare(buf) == Slice(buf, 1, 1 + REPORT_LEN)

\* the 90 bytes received, with the status at offset 89
EchoStatus89(buf, status) == SetItem(EchoBare(buf), REPORT_LEN - 1, status)

\* an answer whose first byte is corrupted
EchoCorrupt(buf, status) == SetItem(EchoReport(buf, status), 0, 1)

StatusCodes ==
    {RAZER_CMD_BUSY, RAZER_CMD_SUCCESSFUL, RAZER_CMD_FAILURE,
     RAZER_CMD_TIMEOUT, RAZER_CMD_NOT_SUPPORTED}

\* what get_feature_report(REPORT_ID, max_length) may return after buf was
\* written: at most max_length bytes; the report with one of the given
\* statuses, or, from a device that misbehaves, something else
FeatureReports(buf, max_length, statuses, malformed) ==
    {Slice(r, 0, max_length) :
        r \in {EchoReport(buf, st) : st \in statuses}
              \cup (IF malformed
                    THEN {EchoSent(buf),
                          EchoSentStatus(buf, RAZER_CMD_SUCCESSFUL),
                          EchoBare(buf),
                          EchoStatus89(buf, RAZER_CMD_SUCCESSFUL),
                          EchoCorrupt(buf, RAZER_CMD_SUCCESSFUL), <<>>}
                    ELSE {})}

\* a host on which any of the devices can be attached and the device may
\* answer anything
AnyHost ==
    [infos |-> DeviceInfos, statuses |-> StatusCodes, malformed |-> TRUE]

\* a host with one keyboard that answers well-formed reports
KeyboardHost ==
    [infos |-> {[vendor_id |-> 5426, product_id |-> 515]},
     statuses |-> {RAZER_CMD_SUCCESSFUL, RAZER_CMD_FAILURE},
     malformed |-> FALSE]

---------------------------------------------------------------------------
(* chromarestserver/resource.py: the requests *)

Procs == {"t1", "t2"}

\* BGR-ordered colors a caller sends
Palette == <<255, 65280, 16711680, 1193046>>

\* the keyboard's own width (set_custom_fill builds 22 columns)
KeyboardCols == 22

Widths == {0, 1, 2, KeyboardCols, MaxCols}

\* the keyboard's own height (set_custom_fill builds 6 rows)
KeyboardRows == 6

Heights == {0, 2, 4, KeyboardRows, MaxRows}

\* an R x C grid of palette colors
Grid(R, C) ==
    [i \in 1..R |-> [j \in 1..C |-> Palette[((i + j) % Len(Palette)) + 1]]]

NoItem == [effect |-> None, color |-> 0, rows |-> <<>>]

\* the items a request may carry
Items ==
    {[effect |-> "CHROMA_NONE", color |-> 0, rows |-> <<>>]}
    \cup {[effect |-> "CHROMA_STATIC", color |-> Palette[k], rows |-> <<>>] :
            k \in 1..Len(Palette)}
    \cup {[effect |-> "CHROMA_CUSTOM", color |-> 0, rows |-> Grid(R, C)] :
            R \in Heights, C \in Widths}
    \cup {[effect |-> e, color |-> 0, rows |-> <<>>] :
            e \in {"CHROMA_WAVE", "CHROMA_SPECTRUM"}}

NoMedia == -1
RZRESULT_SUCCESS == 0
RZRESULT_DEVICE_NOT_CONNECTED == 1167
RZRESULT_DEVICE_NOT_AVAILABLE == 4319

NoExc == [type |-> None, msg |-> ""]
IOError == [type |-> "IOError", msg |-> "Unable to write to USB device"]
InvalidRequest == [type |-> "ValueError", msg |-> "Invalid request"]
InvalidResponse == [type |-> "ValueError", msg |-> "Invalid response"]
NoDeviceFound == [type |-> "RuntimeError", msg |-> "No Razer device found"]
AttributeError == [type |-> "AttributeError", msg |-> "NoneType"]

NoCall == [kind |-> None, color |-> from_long_bgr(0), matrix |-> <<>>,
           idx |-> 0]

\* the builder that a call names, applied to the device the property returned
Build(c, dev) ==
    CASE c.kind = "none" -> matrix_effect_none(dev)
      [] c.kind = "static" ->
            matrix_effect_static(dev, to_rgb(c.color)[1], to_rgb(c.color)[2],
                                 to_rgb(c.color)[3])
      [] c.kind = "spectrum" -> matrix_effect_spectrum(dev)
      [] c.kind = "wave" -> matrix_effect_wave(dev, c.idx)
      [] c.kind = "declare" -> matrix_effect_custom_frame(dev, 1)
      [] c.kind = "row" ->
            set_custom_frame(dev, c.idx, 0, Len(c.matrix[c.idx + 1]),
                             row_rgbs(c.matrix[c.idx + 1]))

\* the call that the dispatch of on_post makes first for an item
Dispatch(it) ==
    CASE it.effect = "CHROMA_NONE" -> [NoCall EXCEPT !.kind = "none"]
      [] it.effect = "CHROMA_STATIC" ->
            [NoCall EXCEPT !.kind = "static",
                           !.color = from_long_bgr(it.color)]
      [] it.effect = "CHROMA_CUSTOM" ->
            [NoCall EXCEPT !.kind = "declare",
                           !.matrix = [i \in 1..Len(it.rows) |->
                                          [j \in 1..Len(it.rows[i]) |->
                                              from_long_bgr(it.rows[i][j])]]]
      [] OTHER -> NoCall

\* the rows taken from the last to the first
NextCall_reversed(c) ==
    CASE c.kind = "declare" /\ Len(c.matrix) > 0 ->
            [c EXCEPT !.kind = "row", !.idx = Len(c.matrix) - 1]
      [] c.kind = "row" /\ c.idx > 0 ->
            [c EXCEPT !.idx = c.idx - 1]
      [] OTHER -> NoCall

\* the call that follows a completed run, NoCall when the item is done
NextCall(c) ==
    CASE c.kind = "declare" /\ Len(c.matrix) > 0 ->
            [c EXCEPT !.kind = "row", !.idx = 0]
      [] c.kind = "row" /\ c.idx + 1 < Len(c.matrix) ->
            [c EXCEPT !.idx = c.idx + 1]
      [] OTHER -> NoCall

\* the echo check against the written buffer, report id included
echo_mismatch_prefixed(req, resp) ==
    Slice(<<REPORT_ID>> \o req, 0, 90) # Slice(resp, 0, 90)

\* the echo check one byte short
echo_mismatch_short(req, resp) ==
    Slice(req, 0, 89) # Slice(resp, 0, 89)

\* request[:90] != response[:90]
echo_mismatch(req, resp) ==
    Slice(req, 0, 90) # Slice(resp, 0, 90)

\* response[-1] != 2
status_not_successful(resp) == resp[Len(resp)] # 2

\* the checks on `written` that accept a short write
after_write_lenient(req, w) ==
    IF w = -1 THEN IOError ELSE NoExc

\* Effect.run: what the checks on `written` raise, NoExc when they pass
after_write(req, w) ==
    IF w = -1 THEN IOError
    ELSE IF w # Len(req) + 1 THEN InvalidRequest
    ELSE NoExc

\* the checks on `response` that raise on a status other than successful
after_read_strict(req, resp) ==
    IF echo_mismatch(req, resp) THEN InvalidResponse
    ELSE IF status_not_successful(resp) THEN IOError
    ELSE NoExc

\* Effect.run: what the checks on `response` raise, NoExc when they pass
after_read(req, resp) ==
    IF echo_mismatch(req, resp) THEN InvalidResponse ELSE NoExc

\* the handlers with the two result codes exchanged
Handled_swapped(e) ==
    CASE e.type = "IOError" -> RZRESULT_DEVICE_NOT_AVAILABLE
      [] e.type = "RuntimeError" -> RZRESULT_DEVICE_NOT_CONNECTED
      [] OTHER -> NoMedia

\* the handlers of on_post: the result code set for an exception, NoMedia
\* for an exception no handler catches
Handled(e) ==
    CASE e.type = "IOError" -> RZRESULT_DEVICE_NOT_CONNECTED
      [] e.type = "RuntimeError" -> RZRESULT_DEVICE_NOT_AVAILABLE
      [] OTHER -> NoMedia

\* the identity of the object that hid.device() creates: one that no
\* handle still referenced by the model or by a running Effect has
NewId ==
    LET live == {usb_device.id} \cup {effect[q].device.id : q \in Procs}
    IN  CHOOSE k \in 1..(Cardinality(Procs) + 1) :
            k \notin live /\ \A j \in 1..(k - 1) : j \in live

LogEntry(op, eff, n) ==
    [op |-> op, command |-> eff.command, subcommand |-> eff.subcommand,
     args |-> eff.args, n |-> n]

SysIdle ==
    /\ usb_device = NoDevice
    /\ pc = [p \in Procs |-> "idle"]
    /\ infos = [p \in Procs |-> <<>>]
    /\ item = [p \in Procs |-> NoItem]
    /\ call = [p \in Procs |-> NoCall]
    /\ media = [p \in Procs |-> NoMedia]
    /\ exc = [p \in Procs |-> NoExc]
    /\ effect = [p \in Procs |-> NoEffect]
    /\ request = [p \in Procs |-> <<>>]
    /\ sent = [p \in Procs |-> <<>>]
    /\ written = [p \in Procs |-> 0]
    /\ response = [p \in Procs |-> <<>>]
    /\ run_io = [p \in Procs |-> <<>>]
    /\ log = [p \in Procs |-> <<>>]
    /\ errlog = [p \in Procs |-> FALSE]

\* on_post entered while another request is being served, whatever the
\* callers arranged
OnPost_unserialized(p) ==
    /\ p \in threads
    /\ pc[p] = "idle"
    /\ pc' = [pc EXCEPT ![p] = "loop"]
    /\ UNCHANGED <<enc_in, enc_effect, enc_report, enc_twin,
                   enc_twin_report, usb_device, threads, serialized,
                   offered, host, infos, item, call, media, exc, effect,
                   request, sent, written, response, run_io, log, errlog>>

\* KeyboardResource.on_post is entered: effects = data.get('effects', [data])
OnPost(p) ==
    /\ p \in threads
    /\ pc[p] = "idle"
    /\ serialized => \A q \in Procs : pc[q] = "idle"
    /\ pc' = [pc EXCEPT ![p] = "loop"]
    /\ UNCHANGED <<enc_in, enc_effect, enc_report, enc_twin,
                   enc_twin_report, usb_device, threads, serialized,
                   offered, host, infos, item, call, media, exc, effect,
                   request, sent, written, response, run_io, log, errlog>>

\* for item in effects: the dispatch on the effect name; a name with no
\* branch falls through to resp.media = {'result': 0}
NextItem(p) ==
    /\ pc[p] = "loop"
    /\ \E it \in offered :
          /\ item' = [item EXCEPT ![p] = it]
          /\ call' = [call EXCEPT ![p] = Dispatch(it)]
          /\ IF Dispatch(it) = NoCall
             THEN /\ media' = [media EXCEPT ![p] = RZRESULT_SUCCESS]
                  /\ pc' = pc
             ELSE /\ media' = media
                  /\ pc' = [pc EXCEPT ![p] = "device"]
    /\ infos' = infos
    /\ exc' = [exc EXCEPT ![p] = NoExc]
    /\ effect' = [effect EXCEPT ![p] = NoEffect]
    /\ request' = [request EXCEPT ![p] = <<>>]
    /\ sent' = [sent EXCEPT ![p] = <<>>]
    /\ written' = [written EXCEPT ![p] = 0]
    /\ response' = [response EXCEPT ![p] = <<>>]
    /\ run_io' = [run_io EXCEPT ![p] = <<>>]
    /\ log' = [log EXCEPT ![p] = <<>>]
    /\ errlog' = [errlog EXCEPT ![p] = FALSE]
    /\ UNCHANGED <<enc_in, enc_effect, enc_report, enc_twin,
                   enc_twin_report, usb_device, threads, serialized,
                   offered, host>>

\* the loop over effects ends and on_post returns
LoopEnd(p) ==
    /\ pc[p] = "loop"
    /\ pc' = [pc EXCEPT ![p] = "returned"]
    /\ UNCHANGED <<enc_in, enc_effect, enc_report, enc_twin,
                   enc_twin_report, usb_device, threads, serialized,
                   offered, host, infos, item, call, media, exc, effect,
                   request, sent, written, response, run_io, log, errlog>>

\* the property without the test of the cache: it enumerates every time
DeviceGet_uncached(p) ==
    /\ pc[p] = "device"
    /\ pc' = [pc EXCEPT ![p] = "enumerate"]
    /\ UNCHANGED <<enc_in, enc_effect, enc_report, enc_twin,
                   enc_twin_report, usb_device, threads, serialized,
                   offered, host, infos, item, call, media, exc, effect,
                   request, sent, written, response, run_io, log, errlog>>

\* USBModel.device: if self._device is None
DeviceGet(p) ==
    /\ pc[p] = "device"
    /\ pc' = [pc EXCEPT ![p] = IF usb_device = NoDevice THEN "enumerate"
                                ELSE "device_check"]
    /\ UNCHANGED <<enc_in, enc_effect, enc_report, enc_twin,
                   enc_twin_report, usb_device, threads, serialized,
                   offered, host, infos, item, call, media, exc, effect,
                   request, sent, written, response, run_io, log, errlog>>

\* USBModel.device: the loop over hid.enumerate(); the first match is
\* opened and cached
Enumerate(p) ==
    /\ pc[p] = "enumerate"
    /\ \E devs \in Enumerations(host.infos) :
          /\ infos' = [infos EXCEPT ![p] = devs]
          /\ log' = [log EXCEPT ![p] =
                        IF first_match(devs) = NoDevice
                        THEN Append(@, LogEntry("enumerate", NoEffect, 0))
                        ELSE Append(Append(@,
                                 LogEntry("enumerate", NoEffect, 0)),
                                 LogEntry("open", NoEffect, 0))]
          /\ usb_device' = IF first_match(devs) = NoDevice THEN usb_device
                           ELSE [first_match(devs) EXCEPT !.id = NewId]
    /\ pc' = [pc EXCEPT ![p] = "device_check"]
    /\ UNCHANGED <<enc_in, enc_effect, enc_report, enc_twin,
                   enc_twin_report, threads, serialized, offered, host,
                   item, call, media, exc, effect, request, sent, written,
                   response, run_io, errlog>>

\* USBModel.device: if self._device is None: raise RuntimeError
DeviceCheck(p) ==
    /\ pc[p] = "device_check"
    /\ IF usb_device = NoDevice
       THEN /\ exc' = [exc EXCEPT ![p] = NoDeviceFound]
            /\ pc' = [pc EXCEPT ![p] = "except"]
       ELSE /\ exc' = exc
            /\ pc' = [pc EXCEPT ![p] = "device_return"]
    /\ infos' = [infos EXCEPT ![p] = <<>>]
    /\ UNCHANGED <<enc_in, enc_effect, enc_report, enc_twin,
                   enc_twin_report, usb_device, threads, serialized,
                   offered, host, item, call, media, effect, request, sent,
                   written, response, run_io, log, errlog>>

\* USBModel.device: return self._device, and the Effect built on it
DeviceReturn(p) ==
    /\ pc[p] = "device_return"
    /\ effect' = [effect EXCEPT ![p] = Build(call[p], usb_device)]
    /\ request' = [request EXCEPT ![p] = <<>>]
    /\ sent' = [sent EXCEPT ![p] = <<>>]
    /\ written' = [written EXCEPT ![p] = 0]
    /\ response' = [response EXCEPT ![p] = <<>>]
    /\ run_io' = [run_io EXCEPT ![p] = <<>>]
    /\ pc' = [pc EXCEPT ![p] = "run"]
    /\ UNCHANGED <<enc_in, enc_effect, enc_report, enc_twin,
                   enc_twin_report, usb_device, threads, serialized,
                   offered, host, infos, item, call, media, exc, log,
                   errlog>>

\* Effect.run: the report is built and written; IOError when the write
\* returns -1, ValueError when it is not len(request)+1
RunWrite(p) ==
    /\ pc[p] = "run"
    /\ IF effect[p].device = NoDevice
       THEN /\ exc' = [exc EXCEPT ![p] = AttributeError]
            /\ pc' = [pc EXCEPT ![p] = "except"]
            /\ request' = [request EXCEPT ![p] = to_feature_report(effect[p])]
            /\ UNCHANGED <<sent, written, run_io, log>>
       ELSE LET req == to_feature_report(effect[p])
                buf == <<REPORT_ID>> \o req
            IN  /\ request' = [request EXCEPT ![p] = req]
                /\ sent' = [sent EXCEPT ![p] = buf]
                /\ run_io' = [run_io EXCEPT ![p] = Append(@, "write")]
                /\ log' = [log EXCEPT ![p] =
                              Append(@, LogEntry("write", effect[p],
                                                 Len(buf)))]
                /\ \E w \in WriteReturns(buf, host.malformed) :
                      /\ written' = [written EXCEPT ![p] = w]
                      /\ IF after_write(req, w) # NoExc
                         THEN /\ exc' = [exc EXCEPT ![p] = after_write(req, w)]
                              /\ pc' = [pc EXCEPT ![p] = "except"]
                         ELSE /\ exc' = exc
                              /\ pc' = [pc EXCEPT ![p] = "read"]
    /\ UNCHANGED <<enc_in, enc_effect, enc_report, enc_twin,
                   enc_twin_report, usb_device, threads, serialized,
                   offered, host, infos, item, call, media, effect,
                   response, errlog>>

\* Effect.run: usleep_range(900, 1000), then the feature report is read
RunRead(p) ==
    /\ pc[p] = "read"
    /\ \E r \in FeatureReports(sent[p], written[p], host.statuses,
                                host.malformed) :
          response' = [response EXCEPT ![p] = r]
    /\ run_io' = [run_io EXCEPT ![p] = Append(@, "read")]
    /\ log' = [log EXCEPT ![p] =
                  Append(@, LogEntry("read", NoEffect, written[p]))]
    /\ pc' = [pc EXCEPT ![p] = "check"]
    /\ UNCHANGED <<enc_in, enc_effect, enc_report, enc_twin,
                   enc_twin_report, usb_device, threads, serialized,
                   offered, host, infos, item, call, media, exc, effect,
                   request, sent, written, errlog>>

\* the echo check with its error caught by the caller's loop, which goes on
RunCheck_resilient(p) ==
    /\ pc[p] = "check"
    /\ IF after_read(request[p], response[p]) # NoExc
       THEN /\ exc' = [exc EXCEPT ![p] = after_read(request[p], response[p])]
            /\ pc' = [pc EXCEPT ![p] = "ran"]
            /\ errlog' = errlog
       ELSE /\ exc' = exc
            /\ pc' = [pc EXCEPT ![p] = "ran"]
            /\ errlog' = [errlog EXCEPT ![p] =
                             @ \/ status_not_successful(response[p])]
    /\ UNCHANGED <<enc_in, enc_effect, enc_report, enc_twin,
                   enc_twin_report, usb_device, threads, serialized,
                   offered, host, infos, item, call, media, effect, request,
                   sent, written, response, run_io, log>>

\* Effect.run: the echo check raises ValueError; the status check logs
RunCheck(p) ==
    /\ pc[p] = "check"
    /\ IF after_read(request[p], response[p]) # NoExc
       THEN /\ exc' = [exc EXCEPT ![p] = after_read(request[p], response[p])]
            /\ pc' = [pc EXCEPT ![p] = "except"]
            /\ errlog' = errlog
       ELSE /\ exc' = exc
            /\ pc' = [pc EXCEPT ![p] = "ran"]
            /\ errlog' = [errlog EXCEPT ![p] =
                             @ \/ status_not_successful(response[p])]
    /\ UNCHANGED <<enc_in, enc_effect, enc_report, enc_twin,
                   enc_twin_report, usb_device, threads, serialized,
                   offered, host, infos, item, call, media, effect, request,
                   sent, written, response, run_io, log>>

\* run() has returned: set_custom_frame goes on to its next row; otherwise
\* the set_* method returns and on_post sets resp.media = {'result': 0}
AfterRun(p) ==
    /\ pc[p] = "ran"
    /\ call' = [call EXCEPT ![p] = IF NextCall(@) = NoCall THEN @
                                    ELSE NextCall(@)]
    /\ IF NextCall(call[p]) = NoCall
       THEN /\ media' = [media EXCEPT ![p] = RZRESULT_SUCCESS]
            /\ pc' = [pc EXCEPT ![p] = "loop"]
       ELSE /\ media' = media
            /\ pc' = [pc EXCEPT ![p] = "device"]
    /\ effect' = [effect EXCEPT ![p] = NoEffect]
    /\ request' = [request EXCEPT ![p] = <<>>]
    /\ sent' = [sent EXCEPT ![p] = <<>>]
    /\ written' = [written EXCEPT ![p] = 0]
    /\ response' = [response EXCEPT ![p] = <<>>]
    /\ run_io' = [run_io EXCEPT ![p] = <<>>]
    /\ UNCHANGED <<enc_in, enc_effect, enc_report, enc_twin,
                   enc_twin_report, usb_device, threads, serialized,
                   offered, host, infos, item, exc, log, errlog>>

\* the except clauses of on_post: IOError and RuntimeError drop the cached
\* device and set a result code, and the loop goes on; any other exception
\* leaves on_post
Handler(p) ==
    /\ pc[p] = "except"
    /\ IF Handled(exc[p]) # NoMedia
       THEN /\ usb_device' = NoDevice
            /\ media' = [media EXCEPT ![p] = Handled(exc[p])]
            /\ pc' = [pc EXCEPT ![p] = "loop"]
       ELSE /\ usb_device' = usb_device
            /\ media' = media
            /\ pc' = [pc EXCEPT ![p] = "raised"]
    /\ UNCHANGED <<enc_in, enc_effect, enc_report, enc_twin,
                   enc_twin_report, threads, serialized, offered, host,
                   infos, item, call, exc, effect, request, sent, written,
                   response, run_io, log, errlog>>

\* the request is over: on_post returned, or an exception left it
Finish(p) ==
    /\ pc[p] \in {"returned", "raised"}
    /\ pc' = [pc EXCEPT ![p] = "idle"]
    /\ infos' = infos
    /\ item' = [item EXCEPT ![p] = NoItem]
    /\ call' = [call EXCEPT ![p] = NoCall]
    /\ media' = [media EXCEPT ![p] = NoMedia]
    /\ exc' = [exc EXCEPT ![p] = NoExc]
    /\ effect' = [effect EXCEPT ![p] = NoEffect]
    /\ request' = [request EXCEPT ![p] = <<>>]
    /\ sent' = [sent EXCEPT ![p] = <<>>]
    /\ written' = [written EXCEPT ![p] = 0]
    /\ response' = [response EXCEPT ![p] = <<>>]
    /\ run_io' = [run_io EXCEPT ![p] = <<>>]
    /\ log' = [log EXCEPT ![p] = <<>>]
    /\ errlog' = [errlog EXCEPT ![p] = FALSE]
    /\ UNCHANGED <<enc_in, enc_effect, enc_report, enc_twin,
                   enc_twin_report, usb_device, threads, serialized,
                   offered, host>>

---------------------------------------------------------------------------
(* The encoder on its own: constructor inputs drawn from bounded sets *)

ByteInputs == {-5, 3, 300}
SubInputs == {-1, 10, 256}
TxInputs == {63, 300}
ArgInputs == {-5, 1, 128, 300}

\* an argument list of length n alternating the values a and b
ArgPattern(n, a, b) == [i \in 1..n |-> IF i % 2 = 1 THEN a ELSE b]

NoInput == [command |-> 0, subcommand |-> 0, tx_id |-> 0, twin_tx |-> 0,
            args |-> <<>>, given |-> FALSE]

EncInit ==
    /\ \E c \in ByteInputs, s \in SubInputs, t \in TxInputs,
          n \in 0..MaxArgLen, a \in ArgInputs, b \in ArgInputs :
          \E u \in TxInputs \ {t} :
              enc_in = [command |-> c, subcommand |-> s, tx_id |-> t,
                        twin_tx |-> u, args |-> ArgPattern(n, a, b),
                        given |-> TRUE]
    /\ enc_effect = NoEffect
    /\ enc_report = <<>>
    /\ enc_twin = NoEffect
    /\ enc_twin_report = <<>>
    /\ SysIdle
    /\ threads = {"t1"}
    /\ serialized = TRUE
    /\ offered = Items
    /\ host = AnyHost

EncConstruct ==
    /\ enc_in.given
    /\ enc_effect = NoEffect
    /\ enc_effect' = Effect(NoDevice, enc_in.command, enc_in.subcommand,
                            enc_in.tx_id, enc_in.args)
    /\ enc_twin' = Effect(NoDevice, enc_in.command, enc_in.subcommand,
                          enc_in.twin_tx, enc_in.args)
    /\ UNCHANGED <<enc_in, enc_report, enc_twin_report>>
    /\ UNCHANGED sysvars

EncEncode ==
    /\ enc_effect # NoEffect
    /\ enc_report = <<>>
    /\ enc_report' = to_feature_report(enc_effect)
    /\ enc_twin_report' = to_feature_report(enc_twin)
    /\ UNCHANGED <<enc_in, enc_effect, enc_twin>>
    /\ UNCHANGED sysvars

EncNext == EncConstruct \/ EncEncode

EncSpec == EncInit /\ [][EncNext]_vars

---------------------------------------------------------------------------
(* Properties of the encoder, checked under EncSpec *)

\* a value saturated into one byte
Saturate(x) == IF x < 0 THEN 0 ELSE IF x > 255 THEN 255 ELSE x

\* bit k of a byte
BitOf(x, k) == (x \div (2 ^ k)) % 2

\* the byte at a Python offset of a list
At(list, offset) == list[offset + 1]

\* the arguments a report has room for after its 8 header bytes
ArgCapacity == REPORT_LEN - 8

\* the arguments that fit before the checksum byte at offset 88
BodyCapacity == REPORT_LEN - 10

Encoded == enc_report # <<>>

\* C1: for a Command with n <= 82 arguments (values possibly outside
\* [0,255]) to_feature_report returns exactly 90 bytes with byte 0 = 0,
\* bytes 2-4 = 0, byte 5 = n, byte 6 = the command saturated into [0,255]
\* and byte 7 = the subcommand saturated into [0,255].
C1_ReportHeader ==
    (Encoded /\ Len(enc_in.args) <= ArgCapacity) =>
        /\ Len(enc_report) = 90
        /\ At(enc_report, 0) = 0
        /\ \A k \in 2..4 : At(enc_report, k) = 0
        /\ At(enc_report, 5) = Len(enc_in.args)
        /\ At(enc_report, 6) = Saturate(enc_in.command)
        /\ At(enc_report, 7) = Saturate(enc_in.subcommand)

C1_Witness ==
    /\ Encoded
    /\ Len(enc_in.args) = ArgCapacity
    /\ enc_in.command > 255
    /\ enc_in.subcommand < 0
    /\ At(enc_report, 6) = 255
    /\ At(enc_report, 7) = 0

\* C2: in every 90-byte Report that to_feature_report produces, byte 88 is
\* the bitwise XOR of the bytes at offsets 2..87 of that same Report: bit by
\* bit, byte 88 holds the parity of that bit over offsets 2..87.
C2_Checksum ==
    (Encoded /\ Len(enc_report) = REPORT_LEN) =>
        \A k \in 0..7 :
            BitOf(At(enc_report, 88), k) =
                Cardinality({o \in 2..87 : BitOf(At(enc_report, o), k) = 1}) % 2

C2_Witness ==
    /\ Encoded
    /\ Len(enc_report) = REPORT_LEN
    /\ Len(enc_in.args) = ArgCapacity
    /\ At(enc_report, 88) # 0
    /\ At(enc_report, 87) # 0

\* the arguments are carried verbatim at offsets 8..8+n-1, the rest of the
\* body up to offset 87 is zero and the status byte at offset 89 is zero
ArgsInBody ==
    LET n == Len(enc_in.args)
    IN  /\ Len(enc_report) = REPORT_LEN
        /\ \A i \in 1..n : At(enc_report, 8 + i - 1) = Saturate(enc_in.args[i])
        /\ \A o \in (8 + n)..87 : At(enc_report, o) = 0
        /\ At(enc_report, 89) = 0

\* C3 as stated: for every Command with n <= 82 arguments the arguments are
\* carried verbatim at offsets 8..8+n-1, every other body byte up to offset
\* 87 is zero and offset 89 is zero.
C3_Original ==
    (Encoded /\ Len(enc_in.args) <= ArgCapacity) => ArgsInBody

\* C3, amended: the same for every Command with n <= 80 arguments, the
\* number of bytes between offset 8 and the checksum byte at offset 88.
C3_ArgsInBody ==
    (Encoded /\ Len(enc_in.args) <= BodyCapacity) => ArgsInBody

C3_Witness ==
    /\ Encoded
    /\ Len(enc_in.args) = BodyCapacity
    /\ At(enc_report, 87) = 255
    /\ At(enc_report, 86) = 0
    /\ ArgsInBody

\* C21: two Commands that differ only in their transaction id produce the
\* same Report, byte for byte, 90 bytes long for at most 82 arguments: the
\* transaction id is saturated into [0,255] and stored in the Command, and
\* byte 1 of the Report is 0 whatever it is.
C21_TxIdNotEncoded ==
    Encoded =>
        /\ enc_effect.tx_id = Saturate(enc_in.tx_id)
        /\ enc_twin.tx_id = Saturate(enc_in.twin_tx)
        /\ enc_twin.tx_id # enc_effect.tx_id
        /\ [enc_twin EXCEPT !.tx_id = enc_effect.tx_id] = enc_effect
        /\ enc_twin_report = enc_report
        /\ At(enc_report, 1) = 0
        /\ At(enc_twin_report, 1) = 0
        /\ Len(enc_in.args) <= ArgCapacity => Len(enc_twin_report) = REPORT_LEN

C21_Witness ==
    /\ Encoded
    /\ Len(enc_in.args) = ArgCapacity
    /\ enc_effect.tx_id = 255
    /\ enc_twin.tx_id = DEFAULT_TX_ID
    /\ enc_twin_report = enc_report
    /\ Len(enc_report) = REPORT_LEN
    /\ At(enc_report, 8) # 0

---------------------------------------------------------------------------
(* The server *)

EncIdle ==
    /\ enc_in = NoInput
    /\ enc_effect = NoEffect
    /\ enc_report = <<>>
    /\ enc_twin = NoEffect
    /\ enc_twin_report = <<>>

Init ==
    /\ EncIdle
    /\ SysIdle
    /\ threads = {"t1"}
    /\ serialized = TRUE
    /\ offered = Items
    /\ host = AnyHost

Next ==
    \E p \in Procs :
          \/ OnPost(p)
          \/ NextItem(p)
          \/ LoopEnd(p)
          \/ DeviceGet(p)
          \/ Enumerate(p)
          \/ DeviceCheck(p)
          \/ DeviceReturn(p)
          \/ RunWrite(p)
          \/ RunRead(p)
          \/ RunCheck(p)
          \/ AfterRun(p)
          \/ Handler(p)
          \/ Finish(p)

Spec == Init /\ [][Next]_vars

\* two request threads share the KeyboardModel; their callers either
\* serialize the requests or do not
ConcItems ==
    {[effect |-> "CHROMA_NONE", color |-> 0, rows |-> <<>>]}

ConcInit ==
    /\ EncIdle
    /\ SysIdle
    /\ threads = Procs
    /\ serialized \in BOOLEAN
    /\ offered = ConcItems
    /\ host = KeyboardHost

ConcSpec == ConcInit /\ [][Next]_vars

---------------------------------------------------------------------------
(* Properties of the server, checked under Spec *)

\* the first 90 bytes of a list
First90(list) == [i \in 1..(IF Len(list) < 90 THEN Len(list) ELSE 90) |-> list[i]]

\* the written buffer without its report id: the Report
ReportOf(buf) == [i \in 1..(Len(buf) - 1) |-> buf[i + 1]]

\* Effect.run of thread p has made its checks on the response
RunChecked(p) == run_io[p] = <<"write", "read">> /\ pc[p] # "check"

\* Effect.run of thread p is over: it returned, or it raised
RunOver(p) ==
    \/ pc[p] = "ran"
    \/ pc[p] = "except" /\ exc[p] \in {IOError, InvalidRequest, InvalidResponse}

\* the processing of an item by thread p is over and its outcome stands
ItemOver(p) == pc[p] \in {"loop", "raised"} /\ item[p] # NoItem

\* thread p processes an item that has not come to its outcome yet
InItem(p) ==
    pc[p] \in {"device", "enumerate", "device_check", "device_return", "run",
               "read", "check", "ran", "except"}

\* the write of thread p's run returned the full length
WriteSucceeded(p) == written[p] = Len(sent[p]) /\ sent[p] # <<>>

\* C4 as stated: every Command constructed for an effect request has at
\* most 82 argument bytes and every Report handed to the transport is
\* exactly 90 bytes long, for custom-frame grids of any row and column count.
C4_Original ==
    \A p \in Procs :
        /\ effect[p] # NoEffect => Len(effect[p].args) <= ArgCapacity
        /\ sent[p] # <<>> => Len(sent[p]) = REPORT_LEN + 1

\* the response is the written buffer, report id first, with the successful
\* status in its last byte
EchoesWritten(p) ==
    /\ Len(response[p]) = Len(sent[p])
    /\ \A i \in 1..(Len(sent[p]) - 1) : response[p][i] = sent[p][i]
    /\ response[p][Len(response[p])] = RAZER_CMD_SUCCESSFUL

\* the response is the 90-byte Report, without the report id, followed by
\* the successful status
EchoesReport(p) ==
    /\ Len(response[p]) = Len(sent[p])
    /\ \A i \in 1..(Len(sent[p]) - 1) : response[p][i] = sent[p][i + 1]
    /\ response[p][Len(response[p])] = RAZER_CMD_SUCCESSFUL

\* C5 as stated: with a device that accepts the full 91-byte write, echoes
\* its input exactly and reports the successful status, Effect.run does not
\* raise, for every Command with at most 82 arguments.
C5_Original ==
    \A p \in Procs :
        (/\ RunChecked(p)
         /\ WriteSucceeded(p)
         /\ Len(effect[p].args) <= ArgCapacity
         /\ EchoesWritten(p))
        => (pc[p] = "ran" /\ exc[p] = NoExc)

\* C5, amended: with a device that accepts the full 91-byte write and
\* answers with the 90-byte Report (the written buffer without its report
\* id) followed by the successful status, Effect.run does not raise, for
\* every Command with at most 82 arguments.
C5_EchoRoundTrip ==
    \A p \in Procs :
        (/\ RunChecked(p)
         /\ WriteSucceeded(p)
         /\ Len(effect[p].args) <= ArgCapacity
         /\ EchoesReport(p))
        => (pc[p] = "ran" /\ exc[p] = NoExc)

C5_Witness ==
    \E p \in Procs :
        /\ RunChecked(p)
        /\ WriteSucceeded(p)
        /\ Len(effect[p].args) = 4 + (3 * KeyboardCols)
        /\ EchoesReport(p)
        /\ pc[p] = "ran"

\* C6 as stated: after a successful write Effect.run raises the echo
\* mismatch error iff the first 90 bytes of the response differ from the
\* first 90 bytes of the report-id-prefixed buffer that was written.
C6_Original ==
    \A p \in Procs :
        (RunChecked(p) /\ WriteSucceeded(p)) =>
            (exc[p] = InvalidResponse <=>
                First90(response[p]) # First90(sent[p]))

\* C6, amended: after a successful write Effect.run raises the echo
\* mismatch error iff the first 90 bytes of the response differ from the
\* first 90 bytes of the Report, the written buffer without its report id.
C6_EchoMismatch ==
    \A p \in Procs :
        (RunChecked(p) /\ WriteSucceeded(p)) =>
            (exc[p] = InvalidResponse <=>
                First90(response[p]) # First90(ReportOf(sent[p])))

C6_Witness ==
    \E p \in Procs :
        /\ RunChecked(p)
        /\ WriteSucceeded(p)
        /\ exc[p] = InvalidResponse
        /\ pc[p] = "except"
        /\ Len(response[p]) = REPORT_LEN
        /\ First90(response[p]) # First90(ReportOf(sent[p]))

\* C7: when the write succeeds and the first 90 bytes of the response are
\* the Report, a status byte other than successful does not raise: the run
\* returns, and an item whose runs raise nothing ends with result code 0
\* whatever status bytes were answered.
C7_StatusIgnored ==
    \A p \in Procs :
        /\ (/\ RunChecked(p)
            /\ WriteSucceeded(p)
            /\ First90(response[p]) = First90(ReportOf(sent[p]))
            /\ response[p][Len(response[p])] # RAZER_CMD_SUCCESSFUL)
           => (pc[p] = "ran" /\ exc[p] = NoExc /\ errlog[p])
        /\ (ItemOver(p) /\ errlog[p] /\ exc[p] = NoExc)
           => (pc[p] = "loop" /\ media[p] = RZRESULT_SUCCESS)

C7_Witness ==
    \E p \in Procs :
        /\ ItemOver(p)
        /\ errlog[p]
        /\ item[p].effect = "CHROMA_STATIC"
        /\ media[p] = RZRESULT_SUCCESS

\* C8 as stated: each invocation of Effect.run issues exactly one write and
\* exactly one read, the read after the write.
C8_Original ==
    \A p \in Procs : RunOver(p) => run_io[p] = <<"write", "read">>

\* C8, amended: each invocation of Effect.run on an open handle issues
\* exactly one write, followed by exactly one read when the write returned
\* the full length and by no read when it did not; neither is repeated.
C8_OneWriteOneRead ==
    \A p \in Procs :
        /\ run_io[p] \in {<<>>, <<"write">>, <<"write", "read">>}
        /\ RunOver(p) =>
              run_io[p] = IF WriteSucceeded(p) THEN <<"write", "read">>
                          ELSE <<"write">>

C8_Witness ==
    \E p \in Procs :
        /\ pc[p] = "except"
        /\ exc[p] = InvalidResponse
        /\ run_io[p] = <<"write", "read">>

\* C9 as stated: whenever the write step fails, by the -1 sentinel or by a
\* count other than the expected one, the item ends with result code 1167
\* and the cached handle is dropped.
C9_Original ==
    \A p \in Procs :
        (ItemOver(p) /\ run_io[p] = <<"write">> /\ ~WriteSucceeded(p)) =>
            (media[p] = RZRESULT_DEVICE_NOT_CONNECTED /\ usb_device = NoDevice)

\* C10 as stated: every item ends with one of the result codes 0, 4319 and
\* 1167, and an echo mismatch ends like a write failure: code 1167, the
\* cached handle dropped.
C10_Original ==
    \A p \in Procs :
        ItemOver(p) =>
            /\ pc[p] = "loop"
            /\ media[p] \in {RZRESULT_SUCCESS, RZRESULT_DEVICE_NOT_AVAILABLE,
                             RZRESULT_DEVICE_NOT_CONNECTED}
            /\ exc[p] = InvalidResponse =>
                  (media[p] = RZRESULT_DEVICE_NOT_CONNECTED
                   /\ usb_device = NoDevice)

\* a device info that has the Razer vendor id and a whitelisted product id
Matches(info) ==
    info.vendor_id = RAZER_VENDOR_ID /\ info.product_id \in KeyboardProducts

\* thread p has just run the enumeration loop of USBModel.device
Enumerated(p) ==
    /\ pc[p] = "device_check"
    /\ log[p] # <<>>
    /\ log[p][Len(log[p])].op \in {"enumerate", "open"}

\* the operations of the HID library calls that thread p made for its item
Ops(p) == [i \in 1..Len(log[p]) |-> log[p][i].op]

\* C11: with no handle cached, USBModel.device opens and caches a handle for
\* the first device in enumeration order that has both the Razer vendor id
\* and a whitelisted product id; no later device is opened, a device with
\* only one of the two is never selected, and with no such device nothing
\* is opened or cached.
C11_FirstMatch ==
    /\ usb_device # NoDevice =>
          (/\ usb_device.vendor_id = RAZER_VENDOR_ID
           /\ usb_device.product_id \in KeyboardProducts)
    /\ \A p \in Procs :
          Enumerated(p) =>
              LET devs == infos[p]
              IN  IF \E i \in 1..Len(devs) : Matches(devs[i])
                  THEN /\ \E i \in 1..Len(devs) :
                             /\ Matches(devs[i])
                             /\ \A j \in 1..(i - 1) : ~Matches(devs[j])
                             /\ usb_device.vendor_id = devs[i].vendor_id
                             /\ usb_device.product_id = devs[i].product_id
                       /\ Ops(p) = <<"enumerate", "open">>
                  ELSE /\ usb_device = NoDevice
                       /\ Ops(p) = <<"enumerate">>

C11_Witness ==
    \E p \in Procs :
        /\ Enumerated(p)
        /\ Len(infos[p]) = 2
        /\ Matches(infos[p][1])
        /\ Matches(infos[p][2])
        /\ infos[p][1].product_id # infos[p][2].product_id
        /\ usb_device.product_id = infos[p][1].product_id
        /\ Ops(p) = <<"enumerate", "open">>

\* C12: when the enumeration finds no matching device the acquisition
\* raises the not-found error, the item ends with result code 4319 (not
\* 1167), no write and no read was issued for it, and no handle is cached
\* before the failure or after it.
C12_NotFound ==
    \A p \in Procs :
        /\ (Enumerated(p) /\ ~\E i \in 1..Len(infos[p]) : Matches(infos[p][i]))
           => usb_device = NoDevice
        /\ (pc[p] = "except" /\ exc[p] = NoDeviceFound) =>
              (usb_device = NoDevice /\ Ops(p) = <<"enumerate">>)
        /\ (ItemOver(p) /\ exc[p] = NoDeviceFound) =>
              /\ pc[p] = "loop"
              /\ media[p] = RZRESULT_DEVICE_NOT_AVAILABLE
              /\ media[p] # RZRESULT_DEVICE_NOT_CONNECTED
              /\ Ops(p) = <<"enumerate">>
              /\ usb_device = NoDevice

C12_Witness ==
    \E p \in Procs :
        /\ ItemOver(p)
        /\ exc[p] = NoDeviceFound
        /\ item[p].effect = "CHROMA_CUSTOM"
        /\ Len(item[p].rows) = 2
        /\ media[p] = RZRESULT_DEVICE_NOT_AVAILABLE
        /\ Ops(p) = <<"enumerate">>

\* one step of the server keeps the memoization of the handle
Memoized ==
    \A p \in Procs :
        /\ (pc[p] = "device" /\ pc'[p] # "device") =>
              (pc'[p] = "enumerate" <=> usb_device = NoDevice)
        /\ (Len(log'[p]) > Len(log[p])
            /\ log'[p][Len(log[p]) + 1].op = "enumerate") =>
              usb_device = NoDevice
        /\ (pc[p] = "device_return" /\ pc'[p] = "run") =>
              /\ usb_device # NoDevice
              /\ effect'[p].device = usb_device
              /\ usb_device' = usb_device
        /\ usb_device' # usb_device =>
              (usb_device = NoDevice \/ usb_device' = NoDevice)

\* C13: the handle is memoized: an acquisition that finds a cached handle
\* returns that handle without enumerating or opening, the cache changes
\* only from absent to a handle or from a handle to absent, and an
\* acquisition that finds the cache absent enumerates.
C13_Memoized == [][Memoized]_vars

C13_Witness ==
    \E p \in Procs :
        /\ pc[p] = "device_return"
        /\ call[p].kind = "row"
        /\ call[p].idx = 1
        /\ usb_device # NoDevice
        /\ \A i \in 1..Len(log[p]) : log[p][i].op \in {"write", "read"}

\* the feature reports written for thread p's item, in order
Writes(p) ==
    SelectSeq(log[p], LAMBDA e : e.op = "write")

\* the declare Command: custom-frame mode, stored
IsDeclare(e) ==
    e.command = 3 /\ e.subcommand = 10 /\ e.args = <<5, 1>>

\* a row Command for a grid row of BGR-ordered colors: 4 header bytes and
\* the red, green and blue byte of each color in turn
IsRowOf(e, row) ==
    /\ e.command = 3
    /\ e.subcommand = 11
    /\ Len(e.args) = 4 + (3 * Len(row))
    /\ e.args[1] = 255
    /\ \A j \in 1..Len(row) :
          /\ e.args[4 + (3 * (j - 1)) + 1] = row[j] % 256
          /\ e.args[4 + (3 * (j - 1)) + 2] = (row[j] \div 256) % 256
          /\ e.args[4 + (3 * (j - 1)) + 3] = (row[j] \div 65536) % 256

\* after an enumeration, if any, the calls are round trips: write, read
RoundTrips(p) ==
    LET ops == SelectSeq(Ops(p), LAMBDA o : o \in {"write", "read"})
    IN  \A i \in 1..Len(ops) : ops[i] = IF i % 2 = 1 THEN "write" ELSE "read"

\* thread p is in, or has ended, a custom-frame item
Custom(p) == item[p].effect = "CHROMA_CUSTOM"

\* C14: a custom-frame request with an R x C grid writes the declare first
\* and only first, then the rows in grid order, each row Command carrying 4
\* header bytes and 3*C color bytes; when every round trip succeeds there
\* are exactly 1 declare and R row round trips and the result code is 0.
C14_CustomSequence ==
    \A p \in Procs :
        Custom(p) =>
            LET w == Writes(p)
                rows == item[p].rows
            IN  /\ Len(w) <= Len(rows) + 1
                /\ \A i \in 1..Len(w) :
                      IF i = 1 THEN IsDeclare(w[i])
                      ELSE ~IsDeclare(w[i]) /\ IsRowOf(w[i], rows[i - 1])
                /\ RoundTrips(p)
                /\ (ItemOver(p) /\ exc[p] = NoExc) =>
                      /\ Len(w) = Len(rows) + 1
                      /\ Len(SelectSeq(Ops(p), LAMBDA o : o = "read"))
                            = Len(rows) + 1
                      /\ media[p] = RZRESULT_SUCCESS

C14_Witness ==
    \E p \in Procs :
        /\ Custom(p)
        /\ ItemOver(p)
        /\ exc[p] = NoExc
        /\ Len(item[p].rows) = 2
        /\ Len(item[p].rows[1]) = 2
        /\ Len(Writes(p)) = 3
        /\ Len(Writes(p)[3].args) = 10

\* the round trip of thread p's current run has failed: the write did not
\* return the full length, or the answer does not echo the Report
RoundTripFailed(p) ==
    \/ /\ run_io[p] = <<"write">>
       /\ pc[p] # "read"
       /\ ~WriteSucceeded(p)
    \/ /\ RunChecked(p)
       /\ First90(response[p]) # First90(ReportOf(sent[p]))

\* C15: when the round trip for row k of a custom-frame sequence fails, the
\* packets written are the declare and the rows 0..k, the last being the
\* failed attempt; nothing is written after it for that item, and the
\* failure reaches on_post as an exception: the item does not end in
\* success.
C15_RowFailure ==
    \A p \in Procs :
        (Custom(p) /\ call[p].kind = "row" /\ RoundTripFailed(p)) =>
            LET w == Writes(p)
                k == call[p].idx
            IN  /\ pc[p] \in {"except", "loop", "raised", "returned"}
                /\ exc[p] \in {IOError, InvalidRequest, InvalidResponse}
                /\ Len(w) = k + 2
                /\ IsDeclare(w[1])
                /\ \A i \in 2..Len(w) : IsRowOf(w[i], item[p].rows[i - 1])
                /\ log[p][Len(log[p])].op \in {"write", "read"}
                /\ ItemOver(p) =>
                      \/ pc[p] = "raised"
                      \/ media[p] = RZRESULT_DEVICE_NOT_CONNECTED

C15_Witness ==
    \E p \in Procs :
        /\ Custom(p)
        /\ ItemOver(p)
        /\ call[p].kind = "row"
        /\ call[p].idx = 1
        /\ Len(item[p].rows) = 4
        /\ RoundTripFailed(p)
        /\ exc[p] = InvalidResponse
        /\ Len(Writes(p)) = 3

\* C20 as stated: within one custom-frame sequence, for a grid of any
\* number of rows and columns, the row-index bytes of the successive row
\* packets are strictly increasing.
C20_Original ==
    \A p \in Procs :
        Custom(p) =>
            LET w == Writes(p)
            IN  \A i, j \in 2..Len(w) :
                    i < j => w[i].args[2] < w[j].args[2]

\* thread p is in, or has ended, a static-color item
Static(p) == item[p].effect = "CHROMA_STATIC"

\* the static Command for a BGR-ordered color x: command 0x03, subcommand
\* 0x0A, arguments mode 6 then the red (low), green and blue (high) byte
IsStaticOf(e, x) ==
    /\ e.command = 3
    /\ e.subcommand = 10
    /\ e.args = <<6, x % 256, (x \div 256) % 256, (x \div 65536) % 256>>

\* C16: a static-color request for a BGR-ordered color builds one Command
\* with command 0x03, subcommand 0x0A and arguments [0x06, R, G, B], the
\* color's channels in RGB order (0x00FF00 gives [0x06, 0, 255, 0]); nothing
\* else is written, and when the round trip succeeds the result code is 0.
C16_StaticColor ==
    \A p \in Procs :
        Static(p) =>
            LET w == Writes(p)
            IN  /\ Len(w) <= 1
                /\ effect[p] # NoEffect => IsStaticOf(effect[p], item[p].color)
                /\ \A i \in 1..Len(w) :
                      /\ IsStaticOf(w[i], item[p].color)
                      /\ item[p].color = 65280 => w[i].args = <<6, 0, 255, 0>>
                /\ RoundTrips(p)
                /\ (ItemOver(p) /\ exc[p] = NoExc) =>
                      /\ Len(w) = 1
                      /\ pc[p] = "loop"
                      /\ media[p] = RZRESULT_SUCCESS

C16_Witness ==
    \E p \in Procs :
        /\ Static(p)
        /\ ItemOver(p)
        /\ exc[p] = NoExc
        /\ item[p].color = 65280
        /\ Len(Writes(p)) = 1
        /\ Writes(p)[1].args = <<6, 0, 255, 0>>
        /\ media[p] = RZRESULT_SUCCESS

\* thread p has built the Effect of a static-color item for the color x:
\* from_long_bgr(x) was called by on_post and to_rgb() by set_matrix_static
Converted(p, x) ==
    Static(p) /\ item[p].color = x /\ effect[p] # NoEffect

\* C17 as stated: from_long_bgr(0x0000FF).to_rgb() has blue = 0xFF and
\* red = green = 0.
C17_Original ==
    \A p \in Procs :
        Converted(p, 255) =>
            /\ effect[p].args[4] = 255
            /\ effect[p].args[2] = 0
            /\ effect[p].args[3] = 0

\* C17, amended: from_long_bgr(0x0000FF).to_rgb() has red = 0xFF and
\* green = blue = 0: the low byte of the integer is the red channel; blue =
\* 0xFF and red = green = 0 is the triple of x = 0xFF0000.
C17_Reorder ==
    \A p \in Procs :
        /\ Converted(p, 255) =>
              /\ call[p].color = [r |-> 255, g |-> 0, b |-> 0]
              /\ SubSeq(effect[p].args, 2, 4) = <<255, 0, 0>>
        /\ Converted(p, 16711680) =>
              /\ call[p].color = [r |-> 0, g |-> 0, b |-> 255]
              /\ SubSeq(effect[p].args, 2, 4) = <<0, 0, 255>>

C17_Witness ==
    \E p \in Procs :
        /\ Converted(p, 255)
        /\ pc[p] = "run"
        /\ effect[p].args = <<6, 255, 0, 0>>

\* the Commands written for an item follow the effect table
FollowsTable(p) ==
    LET w == Writes(p)
        name == item[p].effect
    IN  /\ Len(w) >= 1
        /\ \A i \in 1..Len(w) : w[i].command = 3
        /\ CASE name = "CHROMA_NONE" ->
                    w[1].subcommand = 10 /\ w[1].args = <<0>>
              [] name = "CHROMA_STATIC" ->
                    /\ w[1].subcommand = 10
                    /\ Len(w[1].args) = 4
                    /\ w[1].args[1] = 6
              [] name = "CHROMA_SPECTRUM" ->
                    /\ w[1].subcommand = 10
                    /\ w[1].args = <<LED_SPECTRUM_CYCLING>>
              [] name = "CHROMA_WAVE" ->
                    /\ w[1].subcommand = 10
                    /\ Len(w[1].args) = 2
                    /\ w[1].args[1] = 1
                    /\ w[1].args[2] \in {1, 2}
              [] name = "CHROMA_CUSTOM" ->
                    /\ IsDeclare(w[1])
                    /\ \A i \in 2..Len(w) : w[i].subcommand = 11
              [] OTHER -> FALSE

\* C18 as stated: for each effect name of {none, static, spectrum, wave,
\* custom-frame} a request with a device present performs at least one
\* round trip whose Command follows the effect table; no listed name is
\* accepted without its command being sent.
C18_Original ==
    \A p \in Procs :
        (ItemOver(p) /\ exc[p] = NoExc /\ media[p] = RZRESULT_SUCCESS) =>
            FollowsTable(p)

\* thread p has a round trip in flight: its report is written and the
\* answer is not read yet
InFlight(p) == pc[p] = "read"

\* two round trips are in flight on one handle
TwoInFlight ==
    \E p, q \in Procs :
        /\ p # q
        /\ InFlight(p)
        /\ InFlight(q)
        /\ effect[p].device = effect[q].device

\* C19: when the callers serialize their requests, at most one round trip
\* is in flight on a handle at any time and only one thread is inside
\* on_post. Nothing in the components enforces this: without
\* serialization a write of one request falls between the write and the
\* read of another on the same handle, and two acquisitions on an empty
\* cache both enumerate and open (the state of C19_Witness).
C19_Serialized ==
    serialized =>
        /\ ~TwoInFlight
        /\ Cardinality({p \in Procs : InFlight(p)}) <= 1
        /\ Cardinality({p \in Procs : pc[p] # "idle"}) <= 1

C19_Witness ==
    /\ ~serialized
    /\ TwoInFlight
    /\ \A p \in Procs :
          /\ InFlight(p)
          /\ Ops(p) = <<"enumerate", "open", "write">>
          /\ effect[p].device = usb_device

=============================================================================
